---- MODULE Spec2Model ----
(***************************************************************************)
(* The resilient request layer of the frontend (lib/api.ts and            *)
(* lib/services.ts, bundled in frontend/src/components/index.ts):          *)
(* axiosRetry's retry loop with exponential backoff, the ApiClient         *)
(* operations built on it, handleApiError's normalisation and the service  *)
(* wrappers that rethrow the normalised message.                           *)
(*                                                                         *)
(* One behaviour is one logical call on one ApiClient.  The transport      *)
(* (apiClient.request) is the environment: every attempt either resolves   *)
(* with a response or rejects with an error drawn from TransportErrors.    *)
(* A step is what runs between two awaits of the code.                     *)
(***************************************************************************)
EXTENDS Integers, Sequences, FiniteSets, TLC

VARIABLES
    retryConfig,  \* ApiClient.retryConfig: [retries, retryDelay, retryCondition]
    entry,        \* the operation the caller invoked (an ApiClient method or a service)
    request,      \* the AxiosRequestConfig handed to apiClient.request
    callerConfig, \* the config argument the caller passed to the ApiClient method
    pc,           \* "idle" | "request" | "sleep" | "returned" | "raised" (of axiosRetry)
    attempt,      \* axiosRetry's loop variable
    lastError,    \* axiosRetry's lastError
    timer,        \* ms left on sleep's setTimeout
    response,     \* the AxiosResponse the transport resolved with
    result,       \* what the operation returned to its caller
    thrown,       \* what the operation threw to its caller
    apiError,     \* the ApiError a service's catch block got from handleApiError
    normalizations,   \* number of handleApiError calls made so far
    healthy,      \* what checkApiHealth returned: "true", "false", or nothing yet
    calls,        \* transport side: number of apiClient.request invocations
    failures,     \* transport side: number of rejections
    inFlight,     \* transport side: requests issued and not yet settled
    observed,     \* transport side: the error of the latest rejection
    waited,       \* clock: ms spent in sleep so far
    onlyTransient,    \* history: every rejection so far was a 5xx or a no-response AxiosError
    distinctFailures, \* history: two consecutive rejections carried different errors
    procs,        \* concurrent calls on one ApiClient: each call's own axiosRetry frame
    notifications,    \* NotificationProvider: the list, newest first
    maxNotifications, \* NotificationProvider: the maxNotifications prop
    added,        \* history: number of addNotification calls so far
    evicted,      \* history: stamps of the notifications dropped by the limit
    form,         \* a form component: kind, formData, errors, isLoading, result, apiError, ...
    pending,      \* the service call the form awaits, if any
    serviceCalls, \* history: number of service calls the form started
    lastEvent,    \* history: the handler that ran last
    rejection,    \* history: the value the form's last failed service call rejected with
    healthStatus, \* HealthCheck: the healthStatus state, [status, message]
    checks        \* HealthCheck: the checkHealth invocations in the order they started

clientVars ==
    <<retryConfig, entry, request, callerConfig, pc, attempt, lastError, timer,
      response, result, thrown, apiError, normalizations, healthy, calls, failures,
      inFlight, observed, waited, onlyTransient, distinctFailures>>

\* the frames of the logical calls that run concurrently on the shared client
pairVars == <<procs>>

\* the state of NotificationProvider
notifyVars == <<notifications, maxNotifications, added, evicted>>

\* the state of a form (Summarization, QA or LearningPath)
formVars == <<form, pending, serviceCalls, lastEvent, rejection>>

\* the state of the HealthCheck component
healthVars == <<healthStatus, checks>>

uiVars == <<notifyVars, formVars, healthVars>>

vars == <<clientVars, pairVars, uiVars>>

----------------------------------------------------------------------------
(* Bounds of the model *)

\* the largest retries value a client is constructed with (the default is 3)
MaxRetries == 3

\* no behaviour issues more transport requests than this
MaxCalls == 8

----------------------------------------------------------------------------
(* Values *)

\* JavaScript's undefined, for an optional string
Undefined == "<undefined>"

\* JavaScript truthiness of an optional string
Truthy(s) == s # Undefined /\ s # ""

\* a || b || c on optional strings
OrElse(a, b) == IF Truthy(a) THEN a ELSE b

\* response.data: undefined, or an object with an optional message field
NoData == [defined |-> FALSE, message |-> Undefined]
Data(m) == [defined |-> TRUE, message |-> m]

\* An error value.  type is "AxiosError", "Error" or "undefined".
MkError(type, hasResponse, status, data, hasRequest, code, message) ==
    [type |-> type, hasResponse |-> hasResponse, status |-> status, data |-> data,
     hasRequest |-> hasRequest, code |-> code, message |-> message]

\* new Error(message)
PlainError(message) == MkError("Error", FALSE, 0, NoData, FALSE, Undefined, message)

\* the value of `let lastError` before any assignment
UndefinedError == MkError("undefined", FALSE, 0, NoData, FALSE, Undefined, Undefined)

\* no ApiError computed
NoApiError == [set |-> FALSE, message |-> Undefined, hasStatus |-> FALSE, status |-> 0,
               code |-> Undefined, details |-> NoData]

NoResponse == [set |-> FALSE, data |-> Undefined]
NoRequest == [method |-> Undefined, url |-> Undefined, contentType |-> Undefined,
              xCustom |-> Undefined]

----------------------------------------------------------------------------
(* What the transport can do to one attempt *)

TimeoutCode == "ECONNABORTED"

\* error.response present: every status at the edges of the 4xx and 5xx ranges, every
\* code retryCondition looks at, and Axios' own code for a rejected status
ResponseStatuses == {400, 499, 500, 599}
ResponseCodes == {Undefined, "ERR_BAD_REQUEST", TimeoutCode, "NETWORK_ERROR"}

ResponseErrors ==
    { MkError("AxiosError", TRUE, st, Data("Bad request"), TRUE, c, "Request failed") :
        st \in ResponseStatuses, c \in ResponseCodes }
    \cup
    { MkError("AxiosError", TRUE, st, d, TRUE, Undefined, m) :
        st \in {400, 500}, d \in {NoData, Data(Undefined), Data("")},
        m \in {"", "Request failed"} }
    \cup
    { MkError("AxiosError", TRUE, st, Data("Bad request"), TRUE, Undefined, "") :
        st \in {400, 500} }

\* no response: the request went out (or was never built) and nothing came back
NoResponseErrors ==
    { MkError("AxiosError", FALSE, 0, NoData, rq, c, "Network Error") :
        rq \in BOOLEAN, c \in {Undefined, TimeoutCode, "ERR_NETWORK"} }

\* an exception that is no AxiosError, thrown while the attempt runs
RuntimeErrors == { PlainError(m) : m \in {"", "boom"} }

TransportErrors == ResponseErrors \cup NoResponseErrors \cup RuntimeErrors

\* decoded bodies of a successful response
Bodies == {"bodyA", "bodyB"}

----------------------------------------------------------------------------
(* lib/api.ts *)

DefaultRetries == 3
DefaultRetryDelay == 1000

\* a retryCondition that forgets the no-response case
retryConditionResponseOnly(error) ==
    \/ error.code = "ECONNABORTED"
    \/ error.code = "NETWORK_ERROR"
    \/ (error.hasResponse /\ error.status >= 500 /\ error.status < 600)

\* DEFAULT_RETRY_CONFIG.retryCondition
retryCondition(error) ==
    \/ ~error.hasResponse
    \/ error.code = "ECONNABORTED"
    \/ error.code = "NETWORK_ERROR"
    \/ (error.status >= 500 /\ error.status < 600)

\* retryConfig.retryCondition?.(lastError)
RetryConditionMet(cfg, error) ==
    cfg.retryCondition = "default" /\ retryCondition(error)

DEFAULT_RETRY_CONFIG ==
    [retries |-> DefaultRetries, retryDelay |-> DefaultRetryDelay,
     retryCondition |-> "default"]

\* Math.pow(2, n) for a natural n
RECURSIVE Pow2(_)
Pow2(n) == IF n <= 0 THEN 1 ELSE 2 * Pow2(n - 1)

\* a backoff that grows linearly: retryDelay * (attempt + 1)
BackoffDelayLinear(cfg, n) == cfg.retryDelay * (n + 1)

\* const delay = retryConfig.retryDelay * Math.pow(2, attempt)
BackoffDelay(cfg, n) == cfg.retryDelay * Pow2(n)

\* a last-attempt test that is off by one
LastAttemptOffByOne(cfg, n) == n = cfg.retries - 1

\* attempt === retryConfig.retries
LastAttempt(cfg, n) == n = cfg.retries

\* the for loop's test, attempt <= retryConfig.retries
LoopContinues(cfg, n) == n <= cfg.retries

\* a catch block that keeps the first error it saw
CaughtFirst(previous, error) == IF previous.type = "undefined" THEN error ELSE previous

\* lastError = error as AxiosError
Caught(previous, error) == error

\* a handleApiError without the request-sent branch: it falls through to the fallback
handleApiErrorNoRequestBranch(error) ==
    IF error.type = "AxiosError" /\ error.hasResponse
    THEN [set |-> TRUE,
          message |-> OrElse(OrElse(error.data.message, error.message),
                             "Server error occurred"),
          hasStatus |-> TRUE, status |-> error.status,
          code |-> error.code, details |-> error.data]
    ELSE [set |-> TRUE,
          message |-> IF error.type \in {"AxiosError", "Error"}
                      THEN error.message
                      ELSE "An unexpected error occurred",
          hasStatus |-> FALSE, status |-> 0,
          code |-> Undefined, details |-> NoData]

\* a handleApiError without the axiosError.message fallback
handleApiErrorBodyOnly(error) ==
    IF error.type = "AxiosError" /\ error.hasResponse
    THEN [set |-> TRUE,
          message |-> OrElse(error.data.message, "Server error occurred"),
          hasStatus |-> TRUE, status |-> error.status,
          code |-> error.code, details |-> error.data]
    ELSE IF error.type = "AxiosError" /\ error.hasRequest
    THEN [set |-> TRUE,
          message |-> "Network error - please check your connection",
          hasStatus |-> FALSE, status |-> 0,
          code |-> error.code, details |-> NoData]
    ELSE [set |-> TRUE,
          message |-> IF error.type \in {"AxiosError", "Error"}
                      THEN error.message
                      ELSE "An unexpected error occurred",
          hasStatus |-> FALSE, status |-> 0,
          code |-> Undefined, details |-> NoData]

\* handleApiError
handleApiError(error) ==
    IF error.type = "AxiosError" /\ error.hasResponse
    THEN [set |-> TRUE,
          message |-> OrElse(OrElse(error.data.message, error.message),
                             "Server error occurred"),
          hasStatus |-> TRUE, status |-> error.status,
          code |-> error.code, details |-> error.data]
    ELSE IF error.type = "AxiosError" /\ error.hasRequest
    THEN [set |-> TRUE,
          message |-> "Network error - please check your connection",
          hasStatus |-> FALSE, status |-> 0,
          code |-> error.code, details |-> NoData]
    ELSE [set |-> TRUE,
          message |-> IF error.type \in {"AxiosError", "Error"}
                      THEN error.message
                      ELSE "An unexpected error occurred",
          hasStatus |-> FALSE, status |-> 0,
          code |-> Undefined, details |-> NoData]

----------------------------------------------------------------------------
(* lib/services.ts *)

ApiMethods == {"get", "post", "put", "delete", "upload"}
Services == {"summarizeText", "answerQuestion", "answerQuestionWithFile",
             "generatePath", "checkHealth"}

\* the optional config argument of an ApiClient method: its headers
CallerConfigs ==
    { [contentType |-> Undefined, xCustom |-> Undefined],
      [contentType |-> "text/plain", xCustom |-> "value"] }

NoConfig == [contentType |-> Undefined, xCustom |-> Undefined]

\* { ...config, method, url, data }
MkRequest(method, url, config) ==
    [method |-> method, url |-> url, contentType |-> config.contentType,
     xCustom |-> config.xCustom]

\* upload's headers spread the other way round: the caller's Content-Type wins
UploadConfigCallerWins(config) ==
    [contentType |-> IF config.contentType # Undefined
                     THEN config.contentType
                     ELSE "multipart/form-data",
     xCustom |-> config.xCustom]

\* upload's headers: { ...config?.headers, 'Content-Type': 'multipart/form-data' }
UploadConfig(config) ==
    [contentType |-> "multipart/form-data", xCustom |-> config.xCustom]

----------------------------------------------------------------------------
(* The state after `new ApiClient(retryConfig)` *)

RetryDelays == {DefaultRetryDelay, 250}

\* null
Null == "<null>"

\* no component mounted
UiAtRest ==
    /\ notifications = <<>>
    /\ maxNotifications = 0
    /\ added = 0
    /\ evicted = {}
    /\ form = Null
    /\ pending = Null
    /\ serviceCalls = 0
    /\ lastEvent = Undefined
    /\ rejection = UndefinedError
    /\ healthStatus = Null
    /\ checks = <<>>

Init ==
    /\ retryConfig \in
         { [DEFAULT_RETRY_CONFIG EXCEPT !.retries = r, !.retryDelay = d] :
             r \in 0..MaxRetries, d \in RetryDelays }
    /\ entry = Undefined
    /\ request = NoRequest
    /\ callerConfig = NoConfig
    /\ pc = "idle"
    /\ attempt = 0
    /\ lastError = UndefinedError
    /\ timer = 0
    /\ response = NoResponse
    /\ result = Undefined
    /\ thrown = UndefinedError
    /\ apiError = NoApiError
    /\ normalizations = 0
    /\ healthy = Undefined
    /\ calls = 0
    /\ failures = 0
    /\ inFlight = 0
    /\ observed = UndefinedError
    /\ waited = 0
    /\ onlyTransient = TRUE
    /\ distinctFailures = FALSE
    /\ procs = <<>>
    /\ UiAtRest

----------------------------------------------------------------------------
(* axiosRetry *)

\* a 5xx response or a network (no-response) error of the HTTP layer
NetworkOr5xx(error) ==
    /\ error.type = "AxiosError"
    /\ \/ ~error.hasResponse
       \/ (error.hasResponse /\ error.status >= 500 /\ error.status <= 599)

\* a catch block of checkApiHealth that reports success
HealthOnThrowTrue == "true"

\* checkApiHealth: catch { return false }
HealthOnThrow == "false"

\* An exception leaves axiosRetry and the ApiClient method.  A service's catch block
\* normalises it and throws new Error(apiError.message); a direct caller gets it as is.
\* checkApiHealth's catch block returns false instead.
Raise(name, error) ==
    /\ pc' = "raised"
    /\ IF name \in Services
       THEN /\ apiError' = handleApiError(error)
            /\ normalizations' = normalizations + 1
            /\ thrown' = PlainError(apiError'.message)
            /\ healthy' = healthy
       ELSE IF name = "checkApiHealth"
       THEN /\ healthy' = HealthOnThrow
            /\ UNCHANGED <<apiError, normalizations, thrown>>
       ELSE /\ thrown' = error
            /\ UNCHANGED <<apiError, normalizations, healthy>>

\* return await apiClient.request<T>(config): the request goes out
Dispatch ==
    /\ calls < MaxCalls
    /\ pc' = "request"
    /\ calls' = calls + 1
    /\ inFlight' = inFlight + 1
    /\ UNCHANGED <<thrown, apiError, normalizations, healthy>>

\* the head of the for loop, with attempt' already set
LoopHead(name) ==
    IF LoopContinues(retryConfig, attempt')
    THEN Dispatch
    ELSE /\ Raise(name, lastError')
         /\ UNCHANGED <<calls, inFlight>>

\* axiosRetry(config, this.retryConfig) up to its first await
AxiosRetry(name, config, req) ==
    /\ pc = "idle"
    /\ entry' = name
    /\ callerConfig' = config
    /\ request' = req
    /\ attempt' = 0
    /\ UNCHANGED <<retryConfig, lastError, timer, response, result, failures,
                   observed, waited, onlyTransient, distinctFailures>>
    /\ UNCHANGED <<pairVars, uiVars>>
    /\ LoopHead(name)

\* the transport resolves: axiosRetry returns the response, the method returns its data
RequestResolves(body) ==
    /\ pc = "request"
    /\ response' = [set |-> TRUE, data |-> body]
    /\ result' = response'.data
    /\ pc' = "returned"
    /\ healthy' = IF entry = "checkApiHealth" THEN "true" ELSE healthy
    /\ inFlight' = inFlight - 1
    /\ UNCHANGED <<retryConfig, entry, request, callerConfig, attempt, lastError,
                   timer, thrown, apiError, normalizations, calls, failures, observed,
                   waited, onlyTransient, distinctFailures>>
    /\ UNCHANGED <<pairVars, uiVars>>

\* a catch block that normalises every failed attempt of a service
CatchNormalizationsPerAttempt(name) == IF name \in Services THEN 1 ELSE 0

\* handleApiError calls made by axiosRetry's catch block before a retry: none
CatchNormalizations(name) == 0

\* the transport rejects: the catch block of the loop body
RequestRejects(error) ==
    /\ pc = "request"
    /\ inFlight' = inFlight - 1
    /\ failures' = failures + 1
    /\ observed' = error
    /\ onlyTransient' = (onlyTransient /\ NetworkOr5xx(error))
    /\ distinctFailures' = (distinctFailures \/ (failures >= 1 /\ error # observed))
    /\ lastError' = Caught(lastError, error)
    /\ IF LastAttempt(retryConfig, attempt) \/ ~RetryConditionMet(retryConfig, lastError')
       THEN /\ Raise(entry, lastError')
            /\ timer' = timer
       ELSE /\ pc' = "sleep"
            /\ timer' = BackoffDelay(retryConfig, attempt)
            /\ normalizations' = normalizations + CatchNormalizations(entry)
            /\ UNCHANGED <<thrown, apiError, healthy>>
    /\ UNCHANGED <<retryConfig, entry, request, callerConfig, attempt, response,
                   result, calls, waited>>
    /\ UNCHANGED <<pairVars, uiVars>>

\* time passes while sleep(delay) is pending
Tick ==
    /\ pc = "sleep"
    /\ timer > 0
    /\ timer' = IF timer > retryConfig.retryDelay THEN timer - retryConfig.retryDelay ELSE 0
    /\ waited' = waited + (timer - timer')
    /\ UNCHANGED <<retryConfig, entry, request, callerConfig, pc, attempt, lastError,
                   response, result, thrown, apiError, normalizations, healthy, calls,
                   failures, inFlight, observed, onlyTransient, distinctFailures>>
    /\ UNCHANGED <<pairVars, uiVars>>

\* a timer that fires before its delay has run out
TimerFiredEarly == TRUE

\* setTimeout fires once the delay has run out
TimerFired == timer = 0

\* a loop that forgets attempt++
NextAttemptStuck(n) == n

\* attempt++
NextAttempt(n) == n + 1

\* sleep resolves: attempt++, the loop test, the next request
SleepResolves ==
    /\ pc = "sleep"
    /\ TimerFired
    /\ attempt' = NextAttempt(attempt)
    /\ UNCHANGED <<retryConfig, entry, request, callerConfig, lastError, timer,
                   response, result, failures, observed, waited, onlyTransient,
                   distinctFailures>>
    /\ UNCHANGED <<pairVars, uiVars>>
    /\ LoopHead(entry)

----------------------------------------------------------------------------
(* class ApiClient *)

Get(config) == AxiosRetry("get", config, MkRequest("GET", "/test", config))
Post(config) == AxiosRetry("post", config, MkRequest("POST", "/test", config))
Put(config) == AxiosRetry("put", config, MkRequest("PUT", "/test", config))
Delete(config) == AxiosRetry("delete", config, MkRequest("DELETE", "/test", config))
Upload(config) == AxiosRetry("upload", config, MkRequest("POST", "/test", UploadConfig(config)))

(* the services *)

SummarizeText == AxiosRetry("summarizeText", NoConfig, MkRequest("POST", "/api/summarize", NoConfig))
AnswerQuestion == AxiosRetry("answerQuestion", NoConfig, MkRequest("POST", "/api/qa", NoConfig))
AnswerQuestionWithFile ==
    AxiosRetry("answerQuestionWithFile", NoConfig, MkRequest("POST", "/api/qa", UploadConfig(NoConfig)))
GeneratePath == AxiosRetry("generatePath", NoConfig, MkRequest("POST", "/api/learning-path", NoConfig))
CheckHealth == AxiosRetry("checkHealth", NoConfig, MkRequest("GET", "/health", NoConfig))

\* checkApiHealth: await api.get('/health')
CheckApiHealth ==
    AxiosRetry("checkApiHealth", NoConfig, MkRequest("GET", "/health", NoConfig))

----------------------------------------------------------------------------

Next ==
    \/ \E config \in CallerConfigs : Get(config)
    \/ \E config \in CallerConfigs : Post(config)
    \/ \E config \in CallerConfigs : Put(config)
    \/ \E config \in CallerConfigs : Delete(config)
    \/ \E config \in CallerConfigs : Upload(config)
    \/ SummarizeText
    \/ AnswerQuestion
    \/ AnswerQuestionWithFile
    \/ GeneratePath
    \/ CheckHealth
    \/ CheckApiHealth
    \/ \E body \in Bodies : RequestResolves(body)
    \/ \E error \in TransportErrors : RequestRejects(error)
    \/ Tick
    \/ SleepResolves

Spec == Init /\ [][Next]_vars

\* every attempt completes and every timer runs out
FairSpec == Spec /\ WF_vars(Next)

Done == pc \in {"returned", "raised"}

----------------------------------------------------------------------------
(* handleApiError called on its own, as its callers and the unit tests do *)

\* values that are no Error: a string, null, undefined, an object literal
StringValue(str) == MkError("string", FALSE, 0, NoData, FALSE, Undefined, str)
NullValue == MkError("null", FALSE, 0, NoData, FALSE, Undefined, Undefined)
ObjectValue(m) == MkError("object", FALSE, 0, NoData, FALSE, Undefined, m)

NonErrors ==
    { StringValue("string error"), StringValue("timeout"), NullValue, UndefinedError,
      ObjectValue(Undefined), ObjectValue("object message") }

\* every raw failure handleApiError is given: what the transport rejects with, the same
\* without a message, an Error of calling code, and values that are no Error
RawFailures ==
    TransportErrors
    \cup { MkError("AxiosError", FALSE, 0, NoData, rq, c, "") :
             rq \in BOOLEAN, c \in {Undefined, TimeoutCode, "ERR_NETWORK"} }
    \cup { PlainError("Regular error") }
    \cup NonErrors

NormalizeInit ==
    /\ retryConfig = DEFAULT_RETRY_CONFIG
    /\ entry = Undefined
    /\ request = NoRequest
    /\ callerConfig = NoConfig
    /\ pc = "idle"
    /\ attempt = 0
    /\ lastError = UndefinedError
    /\ timer = 0
    /\ response = NoResponse
    /\ result = Undefined
    /\ thrown = UndefinedError
    /\ apiError = NoApiError
    /\ normalizations = 0
    /\ healthy = Undefined
    /\ calls = 0
    /\ failures = 0
    /\ inFlight = 0
    /\ observed \in RawFailures
    /\ waited = 0
    /\ onlyTransient = TRUE
    /\ distinctFailures = FALSE
    /\ procs = <<>>
    /\ UiAtRest

\* const result = handleApiError(error)
HandleApiError ==
    /\ pc = "idle"
    /\ entry = Undefined
    /\ apiError' = handleApiError(observed)
    /\ normalizations' = normalizations + 1
    /\ pc' = "normalized"
    /\ UNCHANGED <<retryConfig, entry, request, callerConfig, attempt, lastError,
                   timer, response, result, thrown, healthy, calls, failures,
                   inFlight, observed, waited, onlyTransient, distinctFailures>>
    /\ UNCHANGED <<pairVars, uiVars>>

NormalizeNext == HandleApiError

NormalizeSpec == NormalizeInit /\ [][NormalizeNext]_vars

----------------------------------------------------------------------------
(* Several logical calls in flight on the one exported ApiClient *)

\* every variable of the single-call model except retryConfig, untouched
ClientAtRest ==
    /\ entry = Undefined
    /\ request = NoRequest
    /\ callerConfig = NoConfig
    /\ pc = "idle"
    /\ attempt = 0
    /\ lastError = UndefinedError
    /\ timer = 0
    /\ response = NoResponse
    /\ result = Undefined
    /\ thrown = UndefinedError
    /\ apiError = NoApiError
    /\ normalizations = 0
    /\ healthy = Undefined
    /\ calls = 0
    /\ failures = 0
    /\ inFlight = 0
    /\ observed = UndefinedError
    /\ waited = 0
    /\ onlyTransient = TRUE
    /\ distinctFailures = FALSE

\* the callers that use `api` at the same time
CallIds == {1, 2}

\* one invocation of axiosRetry: its locals (attempt, lastError), the delays it slept,
\* the transport outcomes it saw, and what its caller got
IdleCall ==
    [entry |-> Undefined, pc |-> "idle", attempt |-> 0, lastError |-> UndefinedError,
     delays |-> <<>>, log |-> <<>>, result |-> Undefined, thrown |-> UndefinedError]

Resolved(body) == [ok |-> TRUE, body |-> body, error |-> UndefinedError]
Rejected(error) == [ok |-> FALSE, body |-> Undefined, error |-> error]

\* a 503, a 400 and a connection failure
ConcurrentFailures ==
    { MkError("AxiosError", TRUE, 500, Data("Bad request"), TRUE, Undefined, "Request failed"),
      MkError("AxiosError", TRUE, 400, Data("Bad request"), TRUE, Undefined, "Request failed"),
      MkError("AxiosError", FALSE, 0, NoData, TRUE, Undefined, "Network Error") }

\* a loop counter kept on the client and shared by its calls
AttemptOfShared(st, c) == st[1].attempt + st[2].attempt

\* for (let attempt = 0; ...): a local of each invocation
AttemptOf(st, c) == st[c].attempt

PairInit ==
    /\ retryConfig \in
         { [DEFAULT_RETRY_CONFIG EXCEPT !.retries = r, !.retryDelay = d] :
             r \in 0..MaxRetries, d \in RetryDelays }
    /\ ClientAtRest
    /\ procs = [c \in CallIds |-> IdleCall]
    /\ UiAtRest

\* the head of the for loop of call c, in the frames st
ConcurrentLoopHead(st, c) ==
    IF LoopContinues(retryConfig, AttemptOf(st, c))
    THEN procs' = [st EXCEPT ![c].pc = "request"]
    ELSE procs' = [st EXCEPT ![c].pc = "raised", ![c].thrown = st[c].lastError]

\* api.get(...) / api.post(...) by caller c
ConcurrentCall(c, name) ==
    /\ procs[c].pc = "idle"
    /\ ConcurrentLoopHead([procs EXCEPT ![c].entry = name, ![c].attempt = 0], c)
    /\ UNCHANGED <<clientVars, uiVars>>

\* the transport resolves the request of call c
ConcurrentResolves(c, body) ==
    /\ procs[c].pc = "request"
    /\ procs' = [procs EXCEPT ![c].pc = "returned",
                              ![c].result = body,
                              ![c].log = Append(@, Resolved(body))]
    /\ UNCHANGED <<clientVars, uiVars>>

\* the transport rejects the request of call c: the catch block
ConcurrentRejects(c, error) ==
    /\ procs[c].pc = "request"
    /\ LET seen == [procs EXCEPT ![c].lastError = Caught(@, error),
                                 ![c].log = Append(@, Rejected(error))]
       IN IF \/ LastAttempt(retryConfig, AttemptOf(seen, c))
             \/ ~RetryConditionMet(retryConfig, seen[c].lastError)
          THEN procs' = [seen EXCEPT ![c].pc = "raised",
                                     ![c].thrown = seen[c].lastError]
          ELSE procs' = [seen EXCEPT ![c].pc = "sleep",
                                     ![c].delays =
                                        Append(@, BackoffDelay(retryConfig, AttemptOf(seen, c)))]
    /\ UNCHANGED <<clientVars, uiVars>>

\* the sleep of call c resolves: attempt++, the loop test, the next request
ConcurrentSleepResolves(c) ==
    /\ procs[c].pc = "sleep"
    /\ ConcurrentLoopHead([procs EXCEPT ![c].attempt = NextAttempt(@)], c)
    /\ UNCHANGED <<clientVars, uiVars>>

PairNext ==
    \/ \E c \in CallIds, name \in {"get", "post"} : ConcurrentCall(c, name)
    \/ \E c \in CallIds, body \in Bodies : ConcurrentResolves(c, body)
    \/ \E c \in CallIds, error \in ConcurrentFailures : ConcurrentRejects(c, error)
    \/ \E c \in CallIds : ConcurrentSleepResolves(c)

PairSpec == PairInit /\ [][PairNext]_vars

----------------------------------------------------------------------------
(* An ApiClient built with any retry configuration *)

\* new ApiClient(retryConfig): { ...DEFAULT_RETRY_CONFIG, ...retryConfig } takes
\* every retries value, a negative one included, and a retryCondition that is undefined
ConfigInit ==
    /\ retryConfig \in
         { [retries |-> r, retryDelay |-> d, retryCondition |-> c] :
             r \in (0 - 1)..MaxRetries, d \in RetryDelays, c \in {"default", Undefined} }
    /\ ClientAtRest
    /\ procs = <<>>
    /\ UiAtRest

ConfigSpec == ConfigInit /\ [][Next]_vars

----------------------------------------------------------------------------
(* NotificationProvider *)

\* maxNotifications = 5 (the prop's default) and error's duration || 5000
DefaultMaxNotifications == 5
DefaultErrorDuration == 5000

\* addNotification calls explored
MaxAdds == 6

\* Math.random().toString(36).substr(2, 9): two calls may return the same string
NotificationIds == {"k3j2h1", "x9y8z7"}

\* the props a test or an application mounts the provider with
MaxNotificationsProps == {0, 2, DefaultMaxNotifications}

\* a list that is never cut
SliceUnlimited(list, end) == list

\* list.slice(0, end)
Slice(list, end) ==
    LET stop == IF end < 0
                THEN (IF Len(list) + end < 0 THEN 0 ELSE Len(list) + end)
                ELSE (IF end > Len(list) THEN Len(list) ELSE end)
    IN SubSeq(list, 1, stop)

\* addNotification(notification): [newNotification, ...prev].slice(0, maxNotifications).
\* stamp is the ordinal of the call; the code keeps no such field.
AddNotification(type, message, duration, id) ==
    LET newNotification == [id |-> id, type |-> type, message |-> message,
                            duration |-> duration, stamp |-> added + 1]
        updated == <<newNotification>> \o notifications
    IN /\ notifications' = Slice(updated, maxNotifications)
       /\ evicted' = evicted \cup
             { updated[i].stamp : i \in (Len(notifications') + 1)..Len(updated) }
       /\ added' = added + 1
       /\ UNCHANGED maxNotifications

\* success(message): addNotification({ message, type: 'success', duration })
NotifySuccess(message, duration, id) == AddNotification("success", message, duration, id)

\* error(message): addNotification({ message, type: 'error', duration: duration || 5000 })
NotifyError(message, duration, id) ==
    AddNotification("error", message,
                    IF duration = Undefined \/ duration = 0
                    THEN DefaultErrorDuration ELSE duration, id)

\* info(message): addNotification({ message, type: 'info', duration })
NotifyInfo(message, duration, id) == AddNotification("info", message, duration, id)

NotifyInit ==
    /\ retryConfig = DEFAULT_RETRY_CONFIG
    /\ ClientAtRest
    /\ procs = <<>>
    /\ notifications = <<>>
    /\ maxNotifications \in MaxNotificationsProps
    /\ added = 0
    /\ evicted = {}
    /\ form = Null
    /\ pending = Null
    /\ serviceCalls = 0
    /\ lastEvent = Undefined
    /\ rejection = UndefinedError
    /\ healthStatus = Null
    /\ checks = <<>>

Success(message) ==
    /\ added < MaxAdds
    /\ \E id \in NotificationIds : NotifySuccess(message, Undefined, id)
    /\ UNCHANGED <<clientVars, pairVars, healthVars, formVars>>

ErrorToast(message) ==
    /\ added < MaxAdds
    /\ \E id \in NotificationIds : NotifyError(message, Undefined, id)
    /\ UNCHANGED <<clientVars, pairVars, healthVars, formVars>>

Info(message) ==
    /\ added < MaxAdds
    /\ \E id \in NotificationIds : NotifyInfo(message, Undefined, id)
    /\ UNCHANGED <<clientVars, pairVars, healthVars, formVars>>

\* removeNotification(id): a toast is closed or its duration has run out
RemoveNotification(id) ==
    /\ notifications' = SelectSeq(notifications, LAMBDA n : n.id # id)
    /\ UNCHANGED <<maxNotifications, added, evicted>>
    /\ UNCHANGED <<clientVars, pairVars, healthVars, formVars>>

NotifyNext ==
    \/ Success("Saved")
    \/ ErrorToast("Failed")
    \/ Info("Note")
    \/ \E id \in NotificationIds : RemoveNotification(id)

NotifySpec == NotifyInit /\ [][NotifyNext]_vars

----------------------------------------------------------------------------
(* The forms: Summarization, QA, LearningPath *)

FormKinds == {"Summarization", "QA", "LearningPath"}

\* valid submissions explored per mounted form
MaxSubmits == 2

\* the ids of the toasts a form raises: a form never reads or removes a toast, so
\* one generated id stands for all of them
FormNotificationIds == {"k3j2h1"}

\* a string by its length and the length of what trim() leaves of it
Txt(length, trimmed) == [length |-> length, trimmed |-> trimmed]

EmptyText == Txt(0, 0)

\* '', blanks only, too short for every field, acceptable, too long for every field
TextValues == {EmptyText, Txt(3, 0), Txt(4, 4), Txt(20, 20), Txt(10001, 10001)}

DefaultMaxLength == 150

\* parseInt(e.target.value) || 150: around the limits 50 and 500
MaxLengthValues == {49, 50, DefaultMaxLength, 500, 501}

TenMegabytes == 10 * 1024 * 1024

\* file: null
NoFile == [size |-> 0, type |-> Null]

\* result: null
NoResult == [data |-> Null, phases |-> <<>>]

FileValues ==
    { [size |-> 100, type |-> "text/plain"],
      [size |-> 100, type |-> "application/pdf"],
      [size |-> TenMegabytes + 1, type |-> "text/plain"] }

\* type.startsWith('text/')
StartsWithText(type) == type \in {"text/plain", "text/markdown", "text/csv"}

\* the fields of the three FormData interfaces that validation reads
DefaultFormData ==
    [text |-> EmptyText, maxLength |-> DefaultMaxLength, question |-> EmptyText,
     documentText |-> EmptyText, file |-> NoFile, inputMode |-> "text",
     goals |-> EmptyText]

\* the keys of the three FormErrors interfaces
ErrorKeys == {"text", "maxLength", "question", "document", "file", "goals"}

NoErrors == [k \in ErrorKeys |-> Undefined]

\* newErrors.text of Summarization.validateForm
SummarizationTextError(d) ==
    IF d.text.trimmed = 0 THEN "Text is required"
    ELSE IF d.text.length < 10 THEN "Text must be at least 10 characters long"
    ELSE IF d.text.length > 10000 THEN "Text must be less than 10,000 characters"
    ELSE Undefined

\* newErrors.maxLength of Summarization.validateForm
SummarizationMaxLengthError(d) ==
    IF d.maxLength < 50 \/ d.maxLength > 500
    THEN "Summary length must be between 50 and 500 characters"
    ELSE Undefined

\* newErrors.question of QA.validateForm
QuestionError(d) ==
    IF d.question.trimmed = 0 THEN "Question is required"
    ELSE IF d.question.length < 5 THEN "Question must be at least 5 characters long"
    ELSE IF d.question.length > 500 THEN "Question must be less than 500 characters"
    ELSE Undefined

\* newErrors.document of QA.validateForm
DocumentError(d) ==
    IF d.inputMode # "text" THEN Undefined
    ELSE IF d.documentText.trimmed = 0 THEN "Document text is required"
    ELSE IF d.documentText.length < 10
         THEN "Document text must be at least 10 characters long"
    ELSE Undefined

\* newErrors.file of QA.validateForm
FileError(d) ==
    IF d.inputMode = "text" THEN Undefined
    ELSE IF d.file = NoFile THEN "Please select a file to upload"
    ELSE IF d.file.size > TenMegabytes THEN "File size must be less than 10MB"
    ELSE IF ~StartsWithText(d.file.type) THEN "Only text files are supported"
    ELSE Undefined

\* newErrors.goals of LearningPath.validateForm
GoalsError(d) ==
    IF d.goals.trimmed = 0 THEN "Learning goals are required"
    ELSE IF d.goals.length < 10
         THEN "Please provide more detailed learning goals (at least 10 characters)"
    ELSE IF d.goals.length > 1000 THEN "Learning goals must be less than 1,000 characters"
    ELSE Undefined

\* the newErrors object validateForm builds and passes to setErrors
NewErrors(kind, d) ==
    [k \in ErrorKeys |->
        IF kind = "Summarization" /\ k = "text" THEN SummarizationTextError(d)
        ELSE IF kind = "Summarization" /\ k = "maxLength" THEN SummarizationMaxLengthError(d)
        ELSE IF kind = "QA" /\ k = "question" THEN QuestionError(d)
        ELSE IF kind = "QA" /\ k = "document" THEN DocumentError(d)
        ELSE IF kind = "QA" /\ k = "file" THEN FileError(d)
        ELSE IF kind = "LearningPath" /\ k = "goals" THEN GoalsError(d)
        ELSE Undefined]

\* return Object.keys(newErrors).length === 0
FormValid(f) == NewErrors(f.kind, f.formData) = NoErrors

\* the fields a user edits through handleInputChange, and the values tried
FieldsOf(kind) ==
    IF kind = "Summarization" THEN {"text", "maxLength"}
    ELSE IF kind = "QA" THEN {"question", "documentText", "file"}
    ELSE {"goals"}

FieldValues(field) ==
    IF field = "maxLength" THEN MaxLengthValues
    ELSE IF field = "file" THEN FileValues \cup {NoFile}
    ELSE TextValues

\* errors[field]
ErrorAt(errors, field) == IF field \in DOMAIN errors THEN errors[field] ELSE Undefined

\* a phase of a LearningPathResponse: its number and how many objectives and
\* activities it lists
Phase(n, objectives, activities) ==
    [phase_number |-> n, objectives |-> objectives, activities |-> activities]

\* what a service resolves with
Responses(service) ==
    IF service = "summarizeText" THEN {[data |-> "summary", phases |-> <<>>]}
    ELSE IF service = "generatePath"
    THEN {[data |-> "path", phases |-> <<Phase(1, 2, 1), Phase(2, 1, 0)>>],
          [data |-> "path", phases |-> <<Phase(2, 1, 1), Phase(3, 0, 1)>>]}
    ELSE {[data |-> "answer", phases |-> <<>>]}

\* a rejected value that is no Error: { response: { data: { detail } } }
DetailValue(text) ==
    [type |-> "object", hasResponse |-> TRUE, status |-> 0,
     data |-> [defined |-> TRUE, message |-> Undefined, detail |-> text],
     hasRequest |-> FALSE, code |-> Undefined, message |-> Undefined]

\* what a service call rejects with: the services' throw new Error(apiError.message),
\* whose message may be empty, and the value the component tests mock
Rejections ==
    { PlainError(""), PlainError("Network error - please check your connection"),
      DetailValue("API key is invalid") }

\* phaseProgress = {}
EmptyProgress == [n \in {} |-> FALSE]

\* initialProgress: one entry per phase_number, nothing completed
InitialProgress(phases) ==
    [n \in {phases[i].phase_number : i \in DOMAIN phases} |->
        LET phase == phases[CHOOSE i \in DOMAIN phases :
                               /\ phases[i].phase_number = n
                               /\ \A j \in DOMAIN phases :
                                     phases[j].phase_number = n => j <= i]
        IN [completed |-> FALSE,
            completedObjectives |-> [o \in 1..phase.objectives |-> FALSE],
            completedActivities |-> [o \in 1..phase.activities |-> FALSE]]]

MountedForm(kind) ==
    [kind |-> kind, formData |-> DefaultFormData, errors |-> NoErrors,
     isLoading |-> FALSE, result |-> NoResult, apiError |-> Null,
     phaseProgress |-> EmptyProgress, expandedPhases |-> {}]

FormInit ==
    /\ retryConfig = DEFAULT_RETRY_CONFIG
    /\ ClientAtRest
    /\ procs = <<>>
    /\ notifications = <<>>
    /\ maxNotifications = DefaultMaxNotifications
    /\ added = 0
    /\ evicted = {}
    /\ form \in {MountedForm(kind) : kind \in FormKinds}
    /\ pending = Null
    /\ serviceCalls = 0
    /\ lastEvent = "mount"
    /\ rejection = UndefinedError
    /\ healthStatus = Null
    /\ checks = <<>>

\* handleInputChange(field, value); the inputs are disabled while loading
HandleInputChange(field, value) ==
    /\ ~form.isLoading
    /\ field \in FieldsOf(form.kind)
    /\ form' = [form EXCEPT
                  !.formData[field] = value,
                  !.errors = IF Truthy(ErrorAt(form.errors, field))
                             THEN [@ EXCEPT ![field] = Undefined]
                             ELSE @]
    /\ lastEvent' = "change"
    /\ UNCHANGED <<pending, serviceCalls, rejection>>
    /\ UNCHANGED <<clientVars, pairVars, healthVars, notifyVars>>

\* QA.handleModeChange(mode)
HandleModeChange(mode) ==
    /\ form.kind = "QA"
    /\ ~form.isLoading
    /\ form' = [form EXCEPT !.formData.inputMode = mode,
                            !.formData.file = NoFile,
                            !.formData.documentText = EmptyText,
                            !.errors = NoErrors]
    /\ lastEvent' = "mode"
    /\ UNCHANGED <<pending, serviceCalls, rejection>>
    /\ UNCHANGED <<clientVars, pairVars, healthVars, notifyVars>>

\* a submit button that stays enabled while loading
SubmitDisabledWhenBlank(f) ==
    \/ f.kind = "Summarization" /\ f.formData.text.trimmed = 0
    \/ f.kind = "LearningPath" /\ f.formData.goals.trimmed = 0
    \/ f.kind = "QA" /\ f.formData.question.trimmed = 0

\* the disabled attribute of the submit button
SubmitDisabled(f) ==
    \/ f.isLoading
    \/ f.kind = "Summarization" /\ f.formData.text.trimmed = 0
    \/ f.kind = "LearningPath" /\ f.formData.goals.trimmed = 0
    \/ f.kind = "QA" /\
         ~ /\ f.formData.question.trimmed > 0
           /\ \/ f.formData.inputMode = "text" /\ f.formData.documentText.trimmed > 0
              \/ f.formData.inputMode = "file" /\ f.formData.file # NoFile

\* the service handleSubmit calls
ServiceFor(f) ==
    IF f.kind = "Summarization" THEN "summarizeText"
    ELSE IF f.kind = "LearningPath" THEN "generatePath"
    ELSE IF f.formData.inputMode = "file" /\ f.formData.file # NoFile
    THEN "answerQuestionWithFile"
    ELSE "answerQuestion"

\* a handleSubmit that goes on whatever validateForm returned
ProceedsAlways(valid) == TRUE

\* if (!validateForm()) { return; }
Proceeds(valid) == valid

\* a handleSubmit that keeps the outcome of the previous submission on display
OutcomeKept(f) == f

\* setApiError(null); setResult(null);
OutcomeCleared(f) == [f EXCEPT !.apiError = Null, !.result = NoResult]

\* handleSubmit up to its await
HandleSubmit ==
    /\ ~SubmitDisabled(form)
    /\ IF Proceeds(FormValid(form))
       THEN /\ serviceCalls < MaxSubmits
            /\ form' = [OutcomeCleared(form) EXCEPT
                          !.errors = NewErrors(form.kind, form.formData),
                          !.isLoading = TRUE,
                          !.phaseProgress = IF form.kind = "LearningPath"
                                            THEN EmptyProgress ELSE @]
            /\ pending' = ServiceFor(form)
            /\ serviceCalls' = serviceCalls + 1
       ELSE /\ form' = [form EXCEPT !.errors = NewErrors(form.kind, form.formData)]
            /\ UNCHANGED <<pending, serviceCalls>>
    /\ lastEvent' = "submit"
    /\ UNCHANGED rejection
    /\ UNCHANGED <<clientVars, pairVars, healthVars, notifyVars>>

\* a handleSubmit without its finally block
FinallySkipped(f) == f

\* finally { setIsLoading(false); }
Finally(f) == [f EXCEPT !.isLoading = FALSE]

SuccessMessage(kind) ==
    IF kind = "Summarization" THEN "Text summarized successfully!"
    ELSE IF kind = "QA" THEN "Question answered successfully!"
    ELSE "Learning path generated successfully!"

\* the awaited service call resolves: the rest of the try block, then finally
ServiceResolves(resp) ==
    /\ pending # Null
    /\ resp \in Responses(pending)
    /\ form' = Finally([form EXCEPT
                  !.result = resp,
                  !.phaseProgress = IF form.kind = "LearningPath"
                                    THEN InitialProgress(resp.phases) ELSE @,
                  !.expandedPhases = IF form.kind = "LearningPath" THEN {1} ELSE @])
    /\ \E id \in FormNotificationIds : NotifySuccess(SuccessMessage(form.kind), Undefined, id)
    /\ pending' = Null
    /\ lastEvent' = "resolve"
    /\ UNCHANGED <<serviceCalls, rejection>>
    /\ UNCHANGED <<clientVars, pairVars, healthVars>>

\* err instanceof Error ? err.message : 'An unexpected error occurred. Please try again.'
ErrorMessage(err) ==
    IF err.type \in {"Error", "AxiosError"}
    THEN err.message
    ELSE "An unexpected error occurred. Please try again."

\* the awaited service call rejects: the catch block, then finally
ServiceRejects(err) ==
    /\ pending # Null
    /\ form' = Finally([form EXCEPT !.apiError = ErrorMessage(err)])
    /\ \E id \in FormNotificationIds : NotifyError(ErrorMessage(err), Undefined, id)
    /\ pending' = Null
    /\ lastEvent' = "reject"
    /\ rejection' = err
    /\ UNCHANGED serviceCalls
    /\ UNCHANGED <<clientVars, pairVars, healthVars>>

\* {apiError && (<div> ... {apiError} ... </div>)}: the text of the error panel, if any
ErrorPanel(f) == IF f.apiError # Null /\ Truthy(f.apiError) THEN f.apiError ELSE Null

\* resetForm; the reset button is disabled while loading
ResetForm ==
    /\ ~form.isLoading
    /\ form' = [form EXCEPT
                  !.formData = DefaultFormData,
                  !.errors = NoErrors,
                  !.result = NoResult,
                  !.apiError = Null,
                  !.phaseProgress = IF form.kind = "LearningPath" THEN EmptyProgress ELSE @,
                  !.expandedPhases = IF form.kind = "LearningPath" THEN {} ELSE @]
    /\ lastEvent' = "reset"
    /\ UNCHANGED <<pending, serviceCalls, rejection>>
    /\ UNCHANGED <<clientVars, pairVars, healthVars, notifyVars>>

\* the phases the LearningPath component renders: result.phases, if there is a result
RenderedPhases(f) ==
    IF f.kind = "LearningPath" /\ f.result # NoResult THEN f.result.phases ELSE <<>>

\* result?.phases.find(p => p.phase_number === phaseNumber): its index, 0 if none
FindPhase(phases, phaseNumber) ==
    IF \E i \in DOMAIN phases : phases[i].phase_number = phaseNumber
    THEN CHOOSE i \in DOMAIN phases :
            /\ phases[i].phase_number = phaseNumber
            /\ \A j \in DOMAIN phases : phases[j].phase_number = phaseNumber => i <= j
    ELSE 0

\* togglePhaseExpansion(phaseNumber): a click on the header of a rendered phase
TogglePhaseExpansion(phaseNumber) ==
    /\ \E i \in DOMAIN RenderedPhases(form) :
          RenderedPhases(form)[i].phase_number = phaseNumber
    /\ form' = [form EXCEPT !.expandedPhases =
                    IF phaseNumber \in @ THEN @ \ {phaseNumber} ELSE @ \cup {phaseNumber}]
    /\ lastEvent' = "expand"
    /\ UNCHANGED <<pending, serviceCalls, rejection>>
    /\ UNCHANGED <<clientVars, pairVars, healthVars, notifyVars>>

\* updated[phaseNumber], created with nothing completed when it is missing
ProgressEntry(f, phaseNumber) ==
    IF phaseNumber \in DOMAIN f.phaseProgress
    THEN f.phaseProgress[phaseNumber]
    ELSE LET i == FindPhase(RenderedPhases(f), phaseNumber)
             objectives == IF i = 0 THEN 0 ELSE RenderedPhases(f)[i].objectives
             activities == IF i = 0 THEN 0 ELSE RenderedPhases(f)[i].activities
         IN [completed |-> FALSE,
             completedObjectives |-> [o \in 1..objectives |-> FALSE],
             completedActivities |-> [o \in 1..activities |-> FALSE]]

\* a phase whose completed flag is never recomputed
CompletedKept(slot, found) == slot

\* if (phase) { updated[phaseNumber].completed = allObjectivesCompleted && allActivitiesCompleted }
CompletedRecomputed(slot, found) ==
    IF found
    THEN [slot EXCEPT !.completed =
            /\ \A o \in DOMAIN slot.completedObjectives : slot.completedObjectives[o]
            /\ \A o \in DOMAIN slot.completedActivities : slot.completedActivities[o]]
    ELSE slot

\* phaseProgress with the slot of phaseNumber replaced
WithEntry(progress, phaseNumber, slot) ==
    [n \in DOMAIN progress \cup {phaseNumber} |->
        IF n = phaseNumber THEN slot ELSE progress[n]]

\* toggleObjectiveCompletion(phaseNumber, objectiveIndex): a click on a rendered objective
ToggleObjectiveCompletion(phaseNumber, index) ==
    /\ \E i \in DOMAIN RenderedPhases(form) :
          /\ RenderedPhases(form)[i].phase_number = phaseNumber
          /\ index \in 1..RenderedPhases(form)[i].objectives
    /\ LET slot == ProgressEntry(form, phaseNumber)
           toggled == [slot EXCEPT !.completedObjectives[index] = ~@]
           found == FindPhase(RenderedPhases(form), phaseNumber) # 0
       IN form' = [form EXCEPT !.phaseProgress =
                      WithEntry(@, phaseNumber, CompletedRecomputed(toggled, found))]
    /\ lastEvent' = "objective"
    /\ UNCHANGED <<pending, serviceCalls, rejection>>
    /\ UNCHANGED <<clientVars, pairVars, healthVars, notifyVars>>

\* toggleActivityCompletion(phaseNumber, activityIndex): a click on a rendered activity
ToggleActivityCompletion(phaseNumber, index) ==
    /\ \E i \in DOMAIN RenderedPhases(form) :
          /\ RenderedPhases(form)[i].phase_number = phaseNumber
          /\ index \in 1..RenderedPhases(form)[i].activities
    /\ LET slot == ProgressEntry(form, phaseNumber)
           toggled == [slot EXCEPT !.completedActivities[index] = ~@]
           found == FindPhase(RenderedPhases(form), phaseNumber) # 0
       IN form' = [form EXCEPT !.phaseProgress =
                      WithEntry(@, phaseNumber, CompletedRecomputed(toggled, found))]
    /\ lastEvent' = "activity"
    /\ UNCHANGED <<pending, serviceCalls, rejection>>
    /\ UNCHANGED <<clientVars, pairVars, healthVars, notifyVars>>

\* getOverallProgress(): (completedPhases / result.phases.length) * 100, as a fraction
getOverallProgress(f) ==
    IF f.result = NoResult \/ DOMAIN f.phaseProgress = {}
    THEN [num |-> 0, den |-> 1]
    ELSE [num |-> 100 * Cardinality({n \in DOMAIN f.phaseProgress :
                                        f.phaseProgress[n].completed}),
          den |-> Len(f.result.phases)]

\* phase numbers and item indexes a click can carry
PhaseNumbers == 1..3
ItemIndexes == 1..2

FormNext ==
    \/ \E field \in {"text", "maxLength", "question", "documentText", "file", "goals"} :
          \E value \in FieldValues(field) : HandleInputChange(field, value)
    \/ \E mode \in {"text", "file"} : HandleModeChange(mode)
    \/ HandleSubmit
    \/ \E resp \in Responses(pending) : ServiceResolves(resp)
    \/ \E err \in Rejections : ServiceRejects(err)
    \/ ResetForm
    \/ \E n \in PhaseNumbers : TogglePhaseExpansion(n)
    \/ \E n \in PhaseNumbers, i \in ItemIndexes : ToggleObjectiveCompletion(n, i)
    \/ \E n \in PhaseNumbers, i \in ItemIndexes : ToggleActivityCompletion(n, i)

FormSpec == FormInit /\ [][FormNext]_vars

----------------------------------------------------------------------------
(* The HealthCheck component *)

\* checkHealth invocations explored
MaxChecks == 3

Checking == [status |-> "checking", message |-> "Checking backend connection..."]

\* what healthService.checkHealth rejects with: new Error(apiError.message)
HealthRejections ==
    { PlainError("Network error - please check your connection"),
      PlainError("Server error occurred") }

\* `Backend health check failed: ${errorMessage}`
HealthFailureText(errorMessage) ==
    IF errorMessage = "Server error occurred"
    THEN "Backend health check failed: Server error occurred"
    ELSE "Backend health check failed: Network error - please check your connection"

HealthInit ==
    /\ retryConfig = DEFAULT_RETRY_CONFIG
    /\ ClientAtRest
    /\ procs = <<>>
    /\ notifications = <<>>
    /\ maxNotifications = DefaultMaxNotifications
    /\ added = 0
    /\ evicted = {}
    /\ form = Null
    /\ pending = Null
    /\ serviceCalls = 0
    /\ lastEvent = Undefined
    /\ rejection = UndefinedError
    /\ healthStatus = Checking
    /\ checks = <<>>

\* checkHealth up to its await: the status goes back to checking, the call is out
CheckHealth_Start ==
    /\ Len(checks) < MaxChecks
    /\ healthStatus' = Checking
    /\ checks' = Append(checks, "pending")
    /\ UNCHANGED <<clientVars, pairVars, notifyVars, formVars>>

\* useEffect(() => { checkHealth(); setInterval(checkHealth, 30000) }, [])
MountEffect ==
    /\ checks = <<>>
    /\ CheckHealth_Start

\* the interval fires, whether or not an earlier check is still pending (a check
\* may last longer than 30 s: four attempts with a 30 s timeout each)
IntervalFires ==
    /\ checks # <<>>
    /\ CheckHealth_Start

\* the refresh button: disabled={healthStatus.status === 'checking'}
RefreshClick ==
    /\ checks # <<>>
    /\ healthStatus.status # "checking"
    /\ CheckHealth_Start

\* the awaited healthService.checkHealth() of invocation i resolves
CheckResolves(i) ==
    /\ i \in DOMAIN checks
    /\ checks[i] = "pending"
    /\ healthStatus' = [status |-> "healthy", message |-> "Backend is running and accessible"]
    /\ checks' = [checks EXCEPT ![i] = "healthy"]
    /\ UNCHANGED <<clientVars, pairVars, notifyVars, formVars>>

\* the awaited healthService.checkHealth() of invocation i rejects: the catch block
CheckRejects(i, err) ==
    /\ i \in DOMAIN checks
    /\ checks[i] = "pending"
    /\ healthStatus' = [status |-> "unhealthy", message |-> ErrorMessage(err)]
    /\ checks' = [checks EXCEPT ![i] = "unhealthy"]
    /\ \E id \in NotificationIds :
          NotifyError(HealthFailureText(ErrorMessage(err)), Undefined, id)
    /\ UNCHANGED <<clientVars, pairVars, formVars>>

HealthNext ==
    \/ MountEffect
    \/ IntervalFires
    \/ RefreshClick
    \/ \E i \in 1..MaxChecks : CheckResolves(i)
    \/ \E i \in 1..MaxChecks, err \in HealthRejections : CheckRejects(i, err)

HealthSpec == HealthInit /\ [][HealthNext]_vars

----------------------------------------------------------------------------
(* Properties *)

Retries == retryConfig.retries
RetryDelay == retryConfig.retryDelay

\* C1: when the transport fails transiently on attempts 1..k-1 and resolves on attempt
\* k <= retries+1, the transport was invoked exactly k times and the operation returns
\* the decoded body of that k-th response (k = 1 when the transport never fails); the
\* call is never given up while its failures are transient and attempts remain.
C1_RetryThenSucceed ==
    /\ (pc = "returned" /\ onlyTransient) =>
          /\ calls = failures + 1
          /\ calls <= Retries + 1
          /\ response.set /\ result = response.data /\ result \in Bodies
          /\ thrown = UndefinedError
          /\ (failures = 0 => calls = 1)
    /\ (pc = "raised" /\ onlyTransient) => failures = Retries + 1

C1_Witness ==
    /\ pc = "returned" /\ onlyTransient
    /\ failures = 2 /\ calls = 3 /\ result = "bodyA"

\* C2: when every attempt fails with a 5xx response or a network (no-response) error,
\* the client makes exactly 1 + retries transport attempts (4 by default) and then
\* raises: never more attempts, never fewer.
C2_ExhaustsRetries ==
    /\ calls <= Retries + 1
    /\ (onlyTransient /\ failures >= 1) =>
          /\ (pc = "raised") <=> (failures = Retries + 1)
          /\ pc = "raised" => calls = Retries + 1
          /\ (pc = "raised" /\ retryConfig = DEFAULT_RETRY_CONFIG) => calls = 4

C2_Witness ==
    /\ pc = "raised" /\ onlyTransient
    /\ retryConfig = DEFAULT_RETRY_CONFIG /\ calls = 4
    /\ observed.hasResponse /\ observed.status = 500

\* a response was received with a status in 400..499
ClientError(error) ==
    error.type = "AxiosError" /\ error.hasResponse
        /\ error.status >= 400 /\ error.status <= 499

\* C3: an attempt that fails with a response status in 400..499, whatever transport
\* error code accompanies it, ends the call: exactly 1 attempt, the failure is raised
\* at once, no backoff wait is performed and no second attempt is started.
C3_ClientErrorNotRetried ==
    (failures >= 1 /\ ClientError(observed)) =>
        /\ pc = "raised"
        /\ timer = 0
        /\ (failures = 1 => calls = 1 /\ waited = 0)

\* the failure is none of the transient conditions: no response received from the
\* server, timeout/abort, status 500..599
NonTransient(error) ==
    \/ error.type = "Error"
    \/ /\ error.type = "AxiosError" /\ error.hasResponse
       /\ ~(error.status >= 500 /\ error.status <= 599)
       /\ error.code # TimeoutCode

\* C4: a failure that is none of the transient conditions, in particular a plain
\* runtime exception raised during the attempt, is raised after exactly one attempt,
\* with no retry and no wait.
C4_OtherFailuresNotRetried ==
    (failures >= 1 /\ NonTransient(observed)) =>
        /\ pc = "raised"
        /\ timer = 0
        /\ (failures = 1 => calls = 1 /\ waited = 0)

\* C5: the wait after the failed attempt with 0-based index i is exactly
\* retryDelay * 2^i (1000, 2000, 4000 ms by default); a call that exhausts its retries
\* has waited retryDelay * (2^0 + ... + 2^(retries-1)) in total, and nothing is waited
\* after the final failed attempt.
C5_BackoffDelays ==
    /\ pc = "sleep" =>
          /\ calls = failures /\ failures <= Retries
          /\ waited + timer = RetryDelay * (Pow2(calls) - 1)
          /\ timer <= RetryDelay * Pow2(calls - 1)
          /\ retryConfig = DEFAULT_RETRY_CONFIG =>
                waited + timer = CASE calls = 1 -> 1000
                                   [] calls = 2 -> 1000 + 2000
                                   [] calls = 3 -> 1000 + 2000 + 4000
    /\ pc \in {"request", "returned", "raised"} =>
          /\ timer = 0
          /\ waited = RetryDelay * (Pow2(calls - 1) - 1)
    /\ (pc = "raised" /\ failures = Retries + 1) =>
          waited = RetryDelay * (Pow2(Retries) - 1)

C5_Witness ==
    /\ pc = "raised" /\ retryConfig = DEFAULT_RETRY_CONFIG
    /\ failures = 4 /\ waited = 7000 /\ timer = 0

\* C6: whatever the transport does, a logical call makes at most retries + 1 attempts
\* and, every attempt completing, it terminates: it returns a body or raises.
C6_BoundedAndTerminates ==
    /\ [](calls <= Retries + 1 /\ failures <= Retries + 1)
    /\ (pc = "request" ~> Done)
    /\ (pc = "sleep" ~> Done)

C6_Witness ==
    /\ pc = "returned" /\ Retries = DefaultRetries
    /\ calls = Retries + 1 /\ failures = Retries

\* C7: the attempts of a call are strictly sequential: at most one is in flight, and
\* attempt N+1 starts only after attempt N has failed, the failure has been classified
\* retryable and the whole backoff delay of attempt N has elapsed.
C7_StrictlySequential ==
    /\ [](inFlight <= 1)
    /\ [][(calls' = calls + 1 /\ calls >= 1) =>
            /\ inFlight = 0
            /\ pc = "sleep"
            /\ failures = calls
            /\ lastError = observed
            /\ RetryConditionMet(retryConfig, observed)
            /\ timer = 0
            /\ waited = RetryDelay * (Pow2(calls) - 1)]_vars

C7_Witness ==
    /\ pc = "request" /\ calls = 3 /\ inFlight = 1 /\ failures = 2
    /\ waited = RetryDelay + 2 * RetryDelay

\* C8: when every attempt of a call fails, the failure surfaced to the caller is the
\* one observed on the last attempt, also when the attempts failed differently; a
\* service surfaces it normalised, as an Error with the normalised message.
C8_LastFailureSurfaced ==
    pc = "raised" =>
        /\ failures = calls
        /\ entry \in ApiMethods => thrown = observed
        /\ entry \in Services =>
              /\ apiError = handleApiError(observed)
              /\ thrown = PlainError(handleApiError(observed).message)

C8_Witness ==
    /\ pc = "raised" /\ entry \in ApiMethods
    /\ failures = 2 /\ distinctFailures /\ thrown = observed
    /\ thrown.status = 500

\* the transport answered every attempt with the same 400 response carrying a message
Always400WithMessage ==
    /\ failures >= 1 /\ ~distinctFailures
    /\ observed.type = "AxiosError" /\ observed.hasResponse /\ observed.status = 400
    /\ Truthy(observed.data.message)

\* C9: a request to /api/qa whose transport always responds 400 with body {message: m}
\* gives the caller, after exactly 1 attempt, an error carrying both message m and
\* statusCode 400.
C9_BadRequestSurfaced ==
    (pc = "raised" /\ entry = "answerQuestion" /\ Always400WithMessage) =>
        /\ calls = 1
        /\ thrown.message = observed.data.message
        /\ thrown.hasResponse /\ thrown.status = 400

\* C10 as stated: for a failure with a response, normalisation yields message = the
\* body's message field when present, otherwise exactly "Server error occurred";
\* status = the HTTP status; code = the transport's code; details = the body.
C10_MessageOrGeneric ==
    (apiError.set /\ observed.type = "AxiosError" /\ observed.hasResponse) =>
        /\ apiError.message =
              IF observed.data.message \notin {Undefined, ""}
              THEN observed.data.message
              ELSE "Server error occurred"
        /\ apiError.hasStatus /\ apiError.status = observed.status
        /\ apiError.code = observed.code
        /\ apiError.details = observed.data

\* C10 amended: message = the body's message field when present and non-empty,
\* otherwise the error's own message when non-empty, otherwise "Server error
\* occurred"; status, code and details as stated.
C10_MessageFallbackChain ==
    (apiError.set /\ observed.type = "AxiosError" /\ observed.hasResponse) =>
        /\ apiError.message =
              IF observed.data.message \notin {Undefined, ""}
              THEN observed.data.message
              ELSE IF observed.message # ""
                   THEN observed.message
                   ELSE "Server error occurred"
        /\ apiError.hasStatus /\ apiError.status = observed.status
        /\ apiError.code = observed.code
        /\ apiError.details = observed.data

C10_Witness ==
    /\ apiError.set /\ observed.type = "AxiosError" /\ observed.hasResponse
    /\ observed.data.message = Undefined /\ observed.message = "Request failed"
    /\ apiError.message = "Request failed" /\ apiError.status = 500

\* handleApiError has returned for the raw failure in observed
Normalized == pc = "normalized" /\ apiError.set

\* C11: for a failure where a request was sent but no response was received,
\* normalisation yields exactly the message "Network error - please check your
\* connection", code = the transport's code if any, and no status and no details.
C11_NetworkErrorNormalized ==
    (Normalized /\ observed.type = "AxiosError" /\ ~observed.hasResponse
        /\ observed.hasRequest) =>
        /\ apiError.message = "Network error - please check your connection"
        /\ apiError.code = observed.code
        /\ ~apiError.hasStatus
        /\ apiError.details = NoData

C11_Witness ==
    /\ Normalized /\ observed.type = "AxiosError" /\ ~observed.hasResponse
    /\ observed.hasRequest /\ observed.code = "ERR_NETWORK"
    /\ apiError.code = "ERR_NETWORK"
    /\ apiError.message = "Network error - please check your connection"

\* C12: for a failure that is no HTTP-layer error (a plain exception, null, undefined,
\* another value) normalisation yields message = the exception's message when it has
\* one, otherwise the generic "An unexpected error occurred"; no status, no code.
C12_OtherFailureNormalized ==
    (Normalized /\ observed.type # "AxiosError") =>
        /\ apiError.message =
              IF observed.type = "Error" /\ observed.message # ""
              THEN observed.message
              ELSE "An unexpected error occurred"
        /\ ~apiError.hasStatus
        /\ apiError.code = Undefined

\* C13: handleApiError applied to a bare string returns an ApiError whose message is
\* that string, with no status, code or details.
C13_StringPassedThrough ==
    (Normalized /\ observed.type = "string") =>
        /\ apiError.message = observed.message
        /\ ~apiError.hasStatus
        /\ apiError.code = Undefined
        /\ apiError.details = NoData

\* C14: whatever the raw failure, the normalised error has a message that is present
\* and non-empty.
C14_MessageNeverEmpty ==
    Normalized => (apiError.message # Undefined /\ apiError.message # "")

\* C15: upload retries and fails as post does, and every attempt it dispatches is a
\* POST whose Content-Type is multipart/form-data, also when the caller supplied
\* another Content-Type, while the caller's other headers (X-Custom) are retained.
C15_UploadMultipart ==
    entry \in {"upload", "answerQuestionWithFile"} =>
        /\ request.method = "POST"
        /\ request.contentType = "multipart/form-data"
        /\ request.xCustom = callerConfig.xCustom
        /\ calls <= Retries + 1
        /\ pc = "returned" => (calls = failures + 1 /\ result = response.data)
        /\ pc = "sleep" => waited + timer = RetryDelay * (Pow2(calls) - 1)
        /\ pc = "raised" =>
              /\ calls = failures
              /\ (failures = Retries + 1 \/ ~RetryConditionMet(retryConfig, observed))
              /\ entry = "upload" => thrown = observed

C15_Witness ==
    /\ entry = "upload" /\ callerConfig.contentType = "text/plain"
    /\ callerConfig.xCustom = "value"
    /\ request.contentType = "multipart/form-data" /\ request.xCustom = "value"
    /\ pc = "request" /\ calls = 2

\* C16: checkApiHealth never propagates an error: it returns true exactly when the
\* retried GET /health finally resolves, and false in every other case, a 4xx
\* response and a total network failure included.
C16_HealthProbe ==
    entry = "checkApiHealth" =>
        /\ request.method = "GET" /\ request.url = "/health"
        /\ thrown = UndefinedError
        /\ ~Done => healthy = Undefined
        /\ Done => healthy \in {"true", "false"}
        /\ (healthy = "true") <=> (response.set /\ pc = "returned")
        /\ pc = "raised" => healthy = "false"

C16_Witness ==
    /\ entry = "checkApiHealth" /\ pc = "raised" /\ healthy = "false"
    /\ ClientError(observed) /\ calls = 1 /\ thrown = UndefinedError

\* C18: a failing service operation applies error normalisation exactly once per
\* logical call, after the final attempt has failed, and never between attempts.
C18_NormalizedOnce ==
    entry \in Services =>
        /\ pc # "raised" => (normalizations = 0 /\ ~apiError.set)
        /\ pc = "raised" =>
              /\ normalizations = 1
              /\ calls = failures
              /\ apiError = handleApiError(observed)

C18_Witness ==
    /\ entry \in Services /\ pc = "raised" /\ Retries = DefaultRetries
    /\ failures = Retries + 1 /\ normalizations = 1 /\ apiError.set

\* C17: with several calls in flight on the same ApiClient, under every interleaving
\* each call's attempts, backoff delays and outcome are determined by the retry
\* configuration and that call's own transport outcomes: its budget is Retries + 1
\* attempts whatever the other calls see.
C17_CallsIndependent ==
    \A c \in CallIds :
        LET f == procs[c]
            n == Len(f.log)
            slept == IF f.pc \in {"returned", "raised"} THEN n - 1 ELSE n
        IN /\ n <= Retries + 1
           /\ f.pc # "idle" => Len(f.delays) = slept
           /\ f.attempt = IF f.pc = "sleep" THEN Len(f.delays) - 1 ELSE Len(f.delays)
           /\ \A i \in 1..Len(f.delays) :
                 /\ f.delays[i] = RetryDelay * Pow2(i - 1)
                 /\ ~f.log[i].ok
                 /\ RetryConditionMet(retryConfig, f.log[i].error)
           /\ f.pc = "returned" <=> (n > 0 /\ f.log[n].ok)
           /\ f.pc = "returned" => f.result = f.log[n].body
           /\ f.pc = "raised" <=>
                 /\ n > 0
                 /\ ~f.log[n].ok
                 /\ (n = Retries + 1 \/ ~RetryConditionMet(retryConfig, f.log[n].error))
           /\ f.pc = "raised" => f.thrown = f.log[n].error

C17_Witness ==
    /\ Retries = DefaultRetries
    /\ procs[1].pc = "raised" /\ Len(procs[1].log) = Retries + 1
    /\ procs[2].pc = "sleep" /\ Len(procs[2].log) = 1
    /\ procs[2].delays = <<RetryDelay>>

\* C19: after any sequence of addNotification (success / error / info) and
\* removeNotification calls the list holds at most maxNotifications entries (5 by
\* default), it is ordered newest first, and what the limit has dropped is older
\* than everything it kept.
C19_NotificationsLimited ==
    /\ Len(notifications) <= maxNotifications
    /\ \A i \in 1..Len(notifications) :
          /\ notifications[i].stamp \in 1..added
          /\ i > 1 => notifications[i - 1].stamp > notifications[i].stamp
          /\ \A e \in evicted : e < notifications[i].stamp
    /\ evicted # {} => added > maxNotifications

C19_Witness ==
    /\ maxNotifications = DefaultMaxNotifications
    /\ Len(notifications) = DefaultMaxNotifications
    /\ added = DefaultMaxNotifications + 1
    /\ evicted = {1}
    /\ notifications[1].stamp = added
    /\ notifications[1].type = "error"
    /\ notifications[1].duration = DefaultErrorDuration

\* C20: in each of the three forms a submit whose validation fails starts no service
\* call, does not touch the loading flag, the result or the API error, and sends no
\* notification: the validation errors are the only thing it updates.
C20_InvalidSubmitFrame ==
    [][ (lastEvent' = "submit" /\ ~FormValid(form)) =>
           /\ form' = [form EXCEPT !.errors = NewErrors(form.kind, form.formData)]
           /\ ~form'.isLoading
           /\ UNCHANGED <<pending, serviceCalls, notifyVars>> ]_vars

C20_Witness ==
    /\ lastEvent = "submit"
    /\ ~FormValid(form)
    /\ form.errors = NewErrors(form.kind, form.formData)
    /\ form.result # NoResult
    /\ ~form.isLoading
    /\ pending = Null
    /\ serviceCalls = 1

\* C21: in each form the loading flag is set exactly while the service call started
\* by a valid submit is outstanding: it is true from the start of the call until
\* the call settles, and false again once it has resolved or rejected.
C21_LoadingWhilePending ==
    /\ form.isLoading <=> pending # Null
    /\ lastEvent \in {"resolve", "reject"} => ~form.isLoading
    /\ (lastEvent = "submit" /\ FormValid(form)) => form.isLoading

C21_Witness ==
    /\ lastEvent = "reject" /\ ~form.isLoading /\ pending = Null
    /\ form.apiError # Null /\ serviceCalls = MaxSubmits

GenericFormError == "An unexpected error occurred. Please try again."

\* C22: when a service call rejects with an Error that has no message, the form
\* shows "An unexpected error occurred. Please try again." in its error panel.
C22_GenericTextForEmptyError ==
    (lastEvent = "reject" /\ rejection.type = "Error" /\ ~Truthy(rejection.message))
        => ErrorPanel(form) = GenericFormError

\* C23: when a service call rejects with a value carrying the backend's text in
\* response.data.detail, the form shows that text as its error message.
C23_DetailDisplayed ==
    (lastEvent = "reject" /\ rejection.type = "object" /\ rejection.hasResponse)
        => ErrorPanel(form) = rejection.data.detail

\* C24: after a learning path has been generated its first phase, whatever its
\* phase_number, is expanded and every other phase is collapsed.
C24_FirstPhaseExpanded ==
    (lastEvent = "resolve" /\ Len(RenderedPhases(form)) > 0) =>
        \A i \in DOMAIN RenderedPhases(form) :
            (RenderedPhases(form)[i].phase_number \in form.expandedPhases) <=> (i = 1)

\* every objective and every activity of a progress entry is checked
AllChecked(slot) ==
    /\ \A o \in DOMAIN slot.completedObjectives : slot.completedObjectives[o]
    /\ \A o \in DOMAIN slot.completedActivities : slot.completedActivities[o]

ErrorKeyOf(field) == IF field = "documentText" THEN "document" ELSE field

\* C26: in each form changing the value of a field clears the validation error
\* shown for that field and leaves the errors of the other fields as they were.
C26_ChangeClearsFieldError ==
    [][ lastEvent' = "change" =>
           \A field \in FieldsOf(form.kind) :
               form'.formData[field] # form.formData[field] =>
                   /\ form'.errors[ErrorKeyOf(field)] = Undefined
                   /\ \A k \in ErrorKeys \ {ErrorKeyOf(field)} :
                         form'.errors[k] = form.errors[k] ]_vars

\* C29: in each form no service call is started while one is in flight, and neither
\* reset nor an input change nor a mode change runs before the pending call has
\* settled: at most one call per form is outstanding at any time.
C29_OneCallAtATime ==
    [][ /\ serviceCalls' > serviceCalls => (~form.isLoading /\ pending = Null)
        /\ (lastEvent' \in {"reset", "change", "mode"} /\ <<form, lastEvent>>' # <<form, lastEvent>>)
              => (~form.isLoading /\ pending = Null) ]_vars

C29_Witness ==
    /\ lastEvent = "submit" /\ form.isLoading /\ pending # Null
    /\ serviceCalls = 2 /\ added = 1

\* C28: for every retry configuration the constructor accepts (any retries value,
\* 0 and negative ones included, with or without a retryCondition) an operation
\* makes at least one transport attempt before it raises, and what it raises is a
\* failure the transport produced.
C28_RaisesObservedFailure ==
    (pc = "raised" /\ entry # "checkApiHealth") =>
        /\ calls >= 1
        /\ failures >= 1
        /\ entry \in ApiMethods => (thrown = observed /\ thrown # UndefinedError)

\* C27: in HealthCheck, whenever no check is in flight the displayed status is the
\* outcome of the check that was started last: an older check never overwrites the
\* result of a newer one.
C27_LatestCheckDisplayed ==
    (checks # <<>> /\ \A i \in DOMAIN checks : checks[i] # "pending") =>
        healthStatus.status = checks[Len(checks)]

====
